---- MODULE Spec2Model ----
(***************************************************************************)
(* A model of the PowerShell script parser (src/src/utils/ps1_parser.py)   *)
(* and of the editor facade with its version store                         *)
(* (src/src/utils/powershell_editor.py).                                   *)
(*                                                                         *)
(* Text.  A Python str is modelled as a sequence of tokens.  A token is a  *)
(* TLA+ string standing for that run of characters: a punctuation          *)
(* character the patterns of the code name (one character each, the        *)
(* members of Punct), or a run of word characters ([A-Za-z0-9_]) that no   *)
(* pattern of the code can match a part of ("AppVendor", "Install", "5").  *)
(* The regular expressions of the code are operators over such sequences,  *)
(* written to find the same leftmost match with the same greedy or lazy    *)
(* repetition as Python's re module.                                       *)
(*                                                                         *)
(* Line numbers are the 0-based indices of the code; line i of a list of   *)
(* lines L is L[i + 1].                                                    *)
(***************************************************************************)
EXTENDS Integers, Sequences, FiniteSets, TLC

(***************************************************************************)
(* Character classes                                                       *)
(***************************************************************************)
NL == "\n"
CR == "\r"
BSL == "\\"

\* The tokens that are not runs of word characters.
Punct ==
    {" ", "=", "'", "\"", "$", "#", "@", "{", "}", "(", ")", ":", "-", "/",
     ",", ";", ".", BSL, NL, CR}

\* \s of re: the model's whitespace tokens.
IsSpace(t) == t \in {" ", NL, CR}

\* \w of re: every token that is not punctuation is a run of word characters.
IsWord(t) == t \notin Punct

\* \d of re: the digit tokens.
IsDigit(t) == t \in {"0", "1", "2", "3", "4", "5", "6", "7", "8", "9"}

\* ['"] of the patterns.
IsQuote(t) == t \in {"'", "\""}

\* The (true|false) alternative under re.IGNORECASE.
IsBoolWord(t) == t \in {"true", "false", "True", "False", "TRUE", "FALSE"}

\* The (https?://|ftp://) alternative: the scheme word; "://" follows it.
IsScheme(t) == t \in {"http", "https", "ftp"}

(***************************************************************************)
(* Sequence helpers standing for str methods                               *)
(***************************************************************************)
\* The least and the greatest member of a non-empty set of integers.
MinOf(S) == CHOOSE j \in S : \A k \in S : j <= k
MaxOf(S) == CHOOSE j \in S : \A k \in S : j >= k

\* The first index >= i of l whose token is not of the class: where a
\* greedy repetition (\s*, \w+, \d+) that starts at i ends.  It is i when
\* nothing matches and Len(l) + 1 when the rest of l does.
SkipSpace(l, i) ==
    LET S == {j \in i..Len(l) : ~IsSpace(l[j])}
    IN  IF i > Len(l) THEN i ELSE IF S = {} THEN Len(l) + 1 ELSE MinOf(S)

SkipWord(l, i) ==
    LET S == {j \in i..Len(l) : ~IsWord(l[j])}
    IN  IF i > Len(l) THEN i ELSE IF S = {} THEN Len(l) + 1 ELSE MinOf(S)

SkipDigit(l, i) ==
    LET S == {j \in i..Len(l) : ~IsDigit(l[j])}
    IN  IF i > Len(l) THEN i ELSE IF S = {} THEN Len(l) + 1 ELSE MinOf(S)

\* The last index <= i of l that holds no whitespace (0 if none).
SkipSpaceBack(l, i) ==
    LET S == {j \in 1..i : ~IsSpace(l[j])}
    IN  IF S = {} THEN 0 ELSE MaxOf(S)

\* str.strip()
Strip(l) == SubSeq(l, SkipSpace(l, 1), SkipSpaceBack(l, Len(l)))

\* str.startswith(p)
StartsWith(l, p) == Len(l) >= Len(p) /\ SubSeq(l, 1, Len(p)) = p

\* l[i:].startswith(p), i a 1-based index
MatchAt(l, i, p) ==
    i + Len(p) - 1 <= Len(l) /\ SubSeq(l, i, i + Len(p) - 1) = p

\* p in l
Contains(l, p) == \E i \in 1..(Len(l) + 1) : MatchAt(l, i, p)

\* The first index >= i of l whose token is in S; 0 if none.
FindTok(l, i, S) ==
    LET hits == {j \in i..Len(l) : l[j] \in S}
    IN  IF hits = {} THEN 0 ELSE MinOf(hits)

\* As FindTok, for the lazy .*? of re, whose . matches no line break:
\* 0 when a line break comes first.
FindTokNoNL(l, i, S) ==
    LET j == FindTok(l, i, S \cup {NL})
    IN  IF j > 0 /\ l[j] \in S THEN j ELSE 0

RECURSIVE JoinLines(_)
\* '\n'.join(lines)
JoinLines(ls) ==
    IF Len(ls) = 0 THEN <<>>
    ELSE IF Len(ls) = 1 THEN ls[1]
    ELSE ls[1] \o <<NL>> \o JoinLines(Tail(ls))

\* A variant of the split that, as str.splitlines() does, gives no empty
\* last line for a text that ends in a line break.
SplitLinesNoEmptyTail(c) ==
    LET P == {i \in 1..Len(c) : c[i] = NL}
        n == Cardinality(P)
        Pos(k) == IF k = 0 THEN 0
                  ELSE IF k = n + 1 THEN Len(c) + 1
                  ELSE CHOOSE i \in P : Cardinality({j \in P : j < i}) = k - 1
        m == IF Len(c) > 0 /\ c[Len(c)] = NL THEN n ELSE n + 1
    IN  [k \in 1..m |-> SubSeq(c, Pos(k - 1) + 1, Pos(k) - 1)]

RECURSIVE SplitFrom(_, _)
\* The pieces of the text from index i on: up to the next line break, and
\* the pieces after it.
SplitFrom(c, i) ==
    LET j == FindTok(c, i, {NL})
    IN  IF j = 0 THEN <<SubSeq(c, i, Len(c))>>
        ELSE <<SubSeq(c, i, j - 1)>> \o SplitFrom(c, j + 1)

\* content.split('\n'): the pieces between the line breaks of the text.
SplitLines(c) == SplitFrom(c, 1)

(***************************************************************************)
(* PS1Parser: the scanner                                                  *)
(***************************************************************************)
\* ScriptParameter(name, value, line_number, parameter_type, section)
ScriptParameter(name, value, line_number, parameter_type, section) ==
    [name |-> name, value |-> value, line_number |-> line_number,
     parameter_type |-> parameter_type, section |-> section]

\* The common head \s*(\w+)\s*=\s* of the four patterns of
\* _parse_variable_line, matched at the start of the line (re.match):
\* a is where the name starts, b where it ends, v where the value starts.
AssignHead(line) ==
    LET a == SkipSpace(line, 1)
        b == SkipWord(line, a)
        c == SkipSpace(line, b)
    IN  IF b > a /\ c <= Len(line) /\ line[c] = "="
        THEN [ok |-> TRUE, name |-> SubSeq(line, a, b - 1),
              v |-> SkipSpace(line, c + 1)]
        ELSE [ok |-> FALSE, name |-> <<>>, v |-> 0]

\* A variant of _parse_variable_line that looks for the number first and
\* lets a quote stand before it.
ParseVariableLineNumberFirst(line, line_number, section) ==
    LET h == AssignHead(line)
        v == h.v
        n == IF v <= Len(line) /\ IsQuote(line[v]) THEN v + 1 ELSE v
        d == SkipDigit(line, n)
        q == IF v <= Len(line) /\ IsQuote(line[v])
             THEN FindTok(line, v + 1, {"'", "\""}) ELSE 0
        r == IF MatchAt(line, v, <<"@", "(">>)
             THEN FindTokNoNL(line, v + 2, {")"}) ELSE 0
    IN  IF ~h.ok THEN <<>>
        ELSE IF d > n
        THEN <<ScriptParameter(h.name, SubSeq(line, n, d - 1),
                               line_number, "number", section)>>
        ELSE IF q > 0
        THEN <<ScriptParameter(h.name, SubSeq(line, v + 1, q - 1),
                               line_number, "string", section)>>
        ELSE IF r > 0
        THEN <<ScriptParameter(h.name, SubSeq(line, v + 2, r - 1),
                               line_number, "array", section)>>
        ELSE IF v + 1 <= Len(line) /\ line[v] = "$" /\ IsBoolWord(line[v + 1])
        THEN <<ScriptParameter(h.name, <<line[v + 1]>>,
                               line_number, "boolean", section)>>
        ELSE <<>>

\* _parse_variable_line: String, then Number, then Array, then Boolean.
\* Optional[ScriptParameter] is a sequence of at most one parameter.
ParseVariableLine(line, line_number, section) ==
    LET h == AssignHead(line)
        v == h.v
        \* ['"]([^'"]*)['"]
        q == IF v <= Len(line) /\ IsQuote(line[v])
             THEN FindTok(line, v + 1, {"'", "\""}) ELSE 0
        \* (\d+)
        d == SkipDigit(line, v)
        \* @\((.*?)\)
        r == IF MatchAt(line, v, <<"@", "(">>)
             THEN FindTokNoNL(line, v + 2, {")"}) ELSE 0
    IN  IF ~h.ok THEN <<>>
        ELSE IF q > 0
        THEN <<ScriptParameter(h.name, SubSeq(line, v + 1, q - 1),
                               line_number, "string", section)>>
        ELSE IF d > v
        THEN <<ScriptParameter(h.name, SubSeq(line, v, d - 1),
                               line_number, "number", section)>>
        ELSE IF r > 0
        THEN <<ScriptParameter(h.name, SubSeq(line, v + 2, r - 1),
                               line_number, "array", section)>>
        ELSE IF v + 1 <= Len(line) /\ line[v] = "$" /\ IsBoolWord(line[v + 1])
        THEN <<ScriptParameter(h.name, <<line[v + 1]>>,
                               line_number, "boolean", section)>>
        ELSE <<>>

\* re.match(r'^\$adtSession\s*=\s*@\{', line)
IsSessionStart(line) ==
    /\ MatchAt(line, 1, <<"$", "adtSession">>)
    /\ LET c == SkipSpace(line, 3)
       IN  /\ c <= Len(line)
           /\ line[c] = "="
           /\ MatchAt(line, SkipSpace(line, c + 1), <<"@", "{">>)

RECURSIVE SessionScan(_, _, _)
\* _parse_session_variables: the loop from line i (1-based) on, with the
\* in_session_block flag.
SessionScan(lines, i, in_session_block) ==
    IF i > Len(lines) THEN <<>>
    ELSE IF IsSessionStart(lines[i]) THEN SessionScan(lines, i + 1, TRUE)
    ELSE IF in_session_block /\ Strip(lines[i]) = <<"}">>
    THEN SessionScan(lines, i + 1, FALSE)
    ELSE IF in_session_block
    THEN ParseVariableLine(lines[i], i - 1, "variables")
             \o SessionScan(lines, i + 1, TRUE)
    ELSE SessionScan(lines, i + 1, FALSE)

ParseSessionVariables(lines) == SessionScan(lines, 1, FALSE)

\* url_pattern matched at index i of the line:
\* (\$\w+)\s*=\s*['"]((https?://|ftp://)[^'"]+)['"]
UrlAt(line, i) ==
    LET b == SkipWord(line, i + 1)
        c == SkipSpace(line, b)
        q == SkipSpace(line, c + 1)
        e == FindTok(line, q + 1, {"'", "\""})
    IN  IF /\ i <= Len(line)
           /\ line[i] = "$"
           /\ b > i + 1
           /\ c <= Len(line)
           /\ line[c] = "="
           /\ q <= Len(line)
           /\ IsQuote(line[q])
           /\ q + 1 <= Len(line)
           /\ IsScheme(line[q + 1])
           /\ MatchAt(line, q + 2, <<":", "/", "/">>)
           /\ e > q + 5
        THEN [ok |-> TRUE, name |-> SubSeq(line, i, b - 1),
              value |-> SubSeq(line, q + 1, e - 1)]
        ELSE [ok |-> FALSE, name |-> <<>>, value |-> <<>>]

RECURSIVE UrlSearch(_, _)
\* url_pattern.search(line): the leftmost match at or after index i.  A
\* match starts at a $, so the search goes from one $ to the next.
UrlSearch(line, i) ==
    LET j == FindTok(line, i, {"$"})
    IN  IF j = 0 THEN [ok |-> FALSE, name |-> <<>>, value |-> <<>>]
        ELSE LET m == UrlAt(line, j)
             IN  IF m.ok THEN m ELSE UrlSearch(line, j + 1)

RECURSIVE UrlScan(_, _)
\* _parse_urls: the loop from line i (1-based) on.
UrlScan(lines, i) ==
    IF i > Len(lines) THEN <<>>
    ELSE LET m == UrlSearch(lines[i], 1)
         IN  (IF m.ok
              THEN <<ScriptParameter(m.name, m.value, i - 1, "url", "install")>>
              ELSE <<>>) \o UrlScan(lines, i + 1)

ParseUrls(lines) == UrlScan(lines, 1)

\* ScriptSection(name, start_line, end_line, enabled); the description is a
\* fixed text per name and is left out.
ScriptSection(name, start_line, end_line, enabled) ==
    [name |-> name, start_line |-> start_line, end_line |-> end_line,
     enabled |-> enabled]

\* ##\s*MARK:\s* matched at index i of the line: the index after the match,
\* 0 if there is none.
MarkAt(line, i) ==
    LET c == SkipSpace(line, i + 2)
    IN  IF /\ line[i] = "#"
           /\ MatchAt(line, i, <<"#", "#">>)
           /\ MatchAt(line, c, <<"MARK", ":">>)
        THEN SkipSpace(line, c + 2)
        ELSE 0

\* The indices after the matches of ##\s*MARK:\s* in the line.
MarkEnds(line) == {MarkAt(line, i) : i \in 1..Len(line)} \ {0}

\* re.search(r'##\s*MARK:', line)
IsMarkLine(line) == MarkEnds(line) # {}

\* section_patterns: the name, the tokens of the name in the pattern, and
\* whether the pattern ends in \s*$.
SectionPatterns ==
    << [name |-> "Pre-Install", toks |-> <<"Pre", "-", "Install">>,
        anchored |-> FALSE],
       [name |-> "Install", toks |-> <<"Install">>, anchored |-> TRUE],
       [name |-> "Post-Install", toks |-> <<"Post", "-", "Install">>,
        anchored |-> FALSE],
       [name |-> "Pre-Uninstall", toks |-> <<"Pre", "-", "Uninstall">>,
        anchored |-> FALSE],
       [name |-> "Uninstall", toks |-> <<"Uninstall">>, anchored |-> TRUE],
       [name |-> "Post-Uninstall", toks |-> <<"Post", "-", "Uninstall">>,
        anchored |-> FALSE] >>

\* re.search(pattern, line) for one entry of section_patterns, with the
\* indices after the matches of ##\s*MARK:\s* in the line given: the
\* pattern matches where the name, and for an anchored pattern the end of
\* the line, follows one of them.
MatchesSectionAt(pat, line, ends) ==
    \E p \in ends :
        /\ MatchAt(line, p, pat.toks)
        /\ pat.anchored => SkipSpace(line, p + Len(pat.toks)) > Len(line)

\* re.search(pattern, line) for one entry of section_patterns
MatchesSection(pat, line) == MatchesSectionAt(pat, line, MarkEnds(line))

\* i > start_line + 5 in _find_section_end
BraceDistance == 5

RECURSIVE LineMarks(_, _)
\* For each line from line i (1-based) on, the indices after the matches of
\* ##\s*MARK:\s* in it.
LineMarks(lines, i) ==
    IF i > Len(lines) THEN <<>>
    ELSE <<MarkEnds(lines[i])>> \o LineMarks(lines, i + 1)

\* The lines (1-based) that hold ##\s*MARK:, from what LineMarks gives.
MarkedLines(ends) == {i \in 1..Len(ends) : ends[i] # {}}

\* The lines (1-based) that hold ##\s*MARK:.
MarkLines(lines) == MarkedLines(LineMarks(lines, 1))

\* _find_section_end, with the marker lines (1-based) of the text given:
\* the loop returns at the first line after start_line (0-based) that is a
\* marker, or that starts with } and lies more than BraceDistance lines
\* after start_line; the marker test comes first.
FindSectionEndIn(lines, marks, start_line) ==
    LET later == {m \in marks : m - 1 > start_line}
        \* the last line (0-based) the loop can reach: the one before the
        \* next marker, or the last of the text
        reach == IF later = {} THEN Len(lines) - 1 ELSE MinOf(later) - 2
        braces == {i \in (start_line + BraceDistance + 1)..reach :
                      StartsWith(Strip(lines[i + 1]), <<"}">>)}
    IN  IF braces # {} THEN MinOf(braces) ELSE reach

\* _find_section_end
FindSectionEnd(lines, start_line) ==
    FindSectionEndIn(lines, MarkLines(lines), start_line)

\* start_line + 10 in _is_section_enabled
EnabledWindow == 10

\* _is_section_enabled: the lines of range(start_line, min(end_line,
\* start_line + 10)) that count, and those of them that are comments.
CountedLines(lines, start_line, end_line) ==
    {i \in start_line..(MinOf({end_line, start_line + EnabledWindow}) - 1) :
        LET line == Strip(lines[i + 1])
        IN  line # <<>> /\ ~StartsWith(line, <<"#", "#">>)}

IsSectionEnabled(lines, start_line, end_line) ==
    LET total == CountedLines(lines, start_line, end_line)
        commented == {i \in total : StartsWith(Strip(lines[i + 1]), <<"#">>)}
    IN  \/ Cardinality(total) = 0
        \/ 2 * Cardinality(commented) < Cardinality(total)

RECURSIVE SectionScan(_, _, _, _, _)
\* _parse_sections, for one pattern: the loop over the matching lines from
\* line i (1-based) on.  ends is what LineMarks gives for the lines and
\* marks are the lines that hold ##\s*MARK:, the common start of the six
\* patterns: no other line matches one.
SectionScan(lines, ends, marks, pat, i) ==
    LET next == {j \in marks : j >= i}
    IN  IF next = {} THEN <<>>
        ELSE LET m == MinOf(next)
             IN  (IF MatchesSectionAt(pat, lines[m], ends[m])
                  THEN LET end_line == FindSectionEndIn(lines, marks, m - 1)
                       IN  <<ScriptSection(
                                 pat.name, m - 1, end_line,
                                 IsSectionEnabled(lines, m - 1, end_line))>>
                  ELSE <<>>) \o SectionScan(lines, ends, marks, pat, m + 1)

RECURSIVE PatternScan(_, _, _, _)
\* _parse_sections: the loop over section_patterns from entry k on.
PatternScan(lines, ends, marks, k) ==
    IF k > Len(SectionPatterns) THEN <<>>
    ELSE SectionScan(lines, ends, marks, SectionPatterns[k], 1)
             \o PatternScan(lines, ends, marks, k + 1)

\* _parse_sections
ParseSectionsWith(lines, ends) ==
    PatternScan(lines, ends, MarkedLines(ends), 1)

ParseSections(lines) == ParseSectionsWith(lines, LineMarks(lines, 1))

\* A variant of the parser whose URL pass fills urls only: the URL
\* parameters are not among parameters.
NewParserUrlsApart(content) ==
    LET lines == SplitLines(content)
        session == ParseSessionVariables(lines)
        urls == ParseUrls(lines)
    IN  [lines |-> lines,
         parameters |-> session,
         urls |-> [k \in 1..Len(urls) |-> Len(session) + k],
         sections |-> ParseSections(lines)]

\* PS1Parser(script_content) followed by parse(): the parser's fields.
\* urls holds the same objects as parameters, so it is kept as the indices
\* (1-based) of the url parameters in parameters.
NewParser(content) ==
    LET lines == SplitLines(content)
        session == ParseSessionVariables(lines)
        urls == ParseUrls(lines)
    IN  [lines |-> lines,
         parameters |-> session \o urls,
         urls |-> [k \in 1..Len(urls) |-> Len(session) + k],
         sections |-> ParseSections(lines)]

(***************************************************************************)
(* PS1Parser: the mutator                                                  *)
(***************************************************************************)
RECURSIVE ExpandTemplate(_)
\* The replacement template of re.sub: a backslash escape in the
\* replacement text is processed before the text is put into the line.
\* \n is a line break and \\ a backslash; a backslash before punctuation
\* stays as it is.  (The values the model draws hold no other escape.)
ExpandTemplate(t) ==
    IF Len(t) = 0 THEN <<>>
    ELSE IF t[1] = BSL /\ Len(t) >= 2 /\ t[2] = "n"
    THEN <<NL>> \o ExpandTemplate(SubSeq(t, 3, Len(t)))
    ELSE IF t[1] = BSL /\ Len(t) >= 2 /\ t[2] = BSL
    THEN <<BSL>> \o ExpandTemplate(SubSeq(t, 3, Len(t)))
    ELSE <<t[1]>> \o ExpandTemplate(Tail(t))

\* re.sub(r'([\'"]).*?([\'"])', repl, line, count=1): the first quoted
\* span of the line is replaced.
SubQuoted(line, repl) ==
    LET spans == {i \in 1..Len(line) :
                     /\ IsQuote(line[i])
                     /\ FindTokNoNL(line, i + 1, {"'", "\""}) > 0}
    IN  IF spans = {} THEN line
        ELSE LET i == MinOf(spans)
                 j == FindTokNoNL(line, i + 1, {"'", "\""})
             IN  SubSeq(line, 1, i - 1) \o repl
                     \o SubSeq(line, j + 1, Len(line))

\* The end of a match of the pattern of the given kind at index i of the
\* line, 0 if there is none: =\s*\d+ (number), @\((.*?)\) (array),
\* \$(true|false) (boolean).
MatchEnd(kind, line, i) ==
    IF kind = "number"
    THEN LET c == SkipSpace(line, i + 1)
             d == SkipDigit(line, c)
         IN  IF line[i] = "=" /\ d > c THEN d - 1 ELSE 0
    ELSE IF kind = "array"
    THEN IF MatchAt(line, i, <<"@", "(">>)
         THEN FindTokNoNL(line, i + 2, {")"}) ELSE 0
    ELSE IF line[i] = "$" /\ i + 1 <= Len(line) /\ IsBoolWord(line[i + 1])
         THEN i + 1 ELSE 0

RECURSIVE SubAll(_, _, _, _)
\* re.sub(pattern, repl, line) with no count: every match, left to right.
SubAll(kind, line, i, repl) ==
    IF i > Len(line) THEN <<>>
    ELSE LET e == MatchEnd(kind, line, i)
         IN  IF e > 0 THEN repl \o SubAll(kind, line, e + 1, repl)
             ELSE <<line[i]>> \o SubAll(kind, line, i + 1, repl)

\* The new line update_parameter computes for a parameter of the given
\* type.
UpdateLine(parameter_type, old_line, new_value) ==
    IF parameter_type \in {"string", "url"}
    THEN SubQuoted(old_line,
                   ExpandTemplate(<<"'">> \o new_value \o <<"'">>))
    ELSE IF parameter_type = "number"
    THEN SubAll("number", old_line, 1,
                ExpandTemplate(<<"=", " ">> \o new_value))
    ELSE IF parameter_type = "array"
    THEN SubAll("array", old_line, 1,
                ExpandTemplate(<<"@", "(">> \o new_value \o <<")">>))
    ELSE SubAll("boolean", old_line, 1,
                ExpandTemplate(<<"$">> \o new_value))

\* param.name == param_name or param.name == f'${param_name}'
NameMatches(param, param_name) ==
    param.name = param_name \/ param.name = <<"$">> \o param_name

\* The index (1-based) of the first parameter the name matches, 0 if none.
FindParamIndex(p, param_name) ==
    LET hits == {k \in 1..Len(p.parameters) :
                    NameMatches(p.parameters[k], param_name)}
    IN  IF hits = {} THEN 0
        ELSE CHOOSE k \in hits : \A j \in hits : k <= j

\* PS1Parser.update_parameter: the value returned and the parser after.
ParserUpdateParameter(p, param_name, new_value) ==
    LET k == FindParamIndex(p, param_name)
    IN  IF k = 0 THEN [ret |-> FALSE, parser |-> p]
        ELSE LET param == p.parameters[k]
                 new_line == UpdateLine(param.parameter_type,
                                        p.lines[param.line_number + 1],
                                        new_value)
             IN  [ret |-> TRUE,
                  parser |->
                      [p EXCEPT !.lines[param.line_number + 1] = new_line,
                                !.parameters[k].value = new_value]]

\* '    # ' of _comment_section
CommentPrefix == <<" ", " ", " ", " ", "#", " ">>

\* _comment_section, for one line
CommentLine(line) ==
    IF ~StartsWith(Strip(line), <<"#">>) THEN CommentPrefix \o line ELSE line

\* re.sub(r'^\s*#\s?', '', line)
StripComment(line) ==
    LET a == SkipSpace(line, 1)
    IN  IF a <= Len(line) /\ line[a] = "#"
        THEN IF a + 1 <= Len(line) /\ IsSpace(line[a + 1])
             THEN SubSeq(line, a + 2, Len(line))
             ELSE SubSeq(line, a + 1, Len(line))
        ELSE line

\* _uncomment_section, for one line
UncommentLine(line) ==
    IF StartsWith(Strip(line), <<"#">>)
       /\ ~Contains(line, <<"#", "#", " ", "MARK", ":">>)
    THEN StripComment(line)
    ELSE line

\* A variant of _comment_section whose range starts one line early.
CommentSectionShifted(lines, start_line, end_line) ==
    [i \in 1..Len(lines) |->
        IF start_line <= i /\ i <= end_line + 1
        THEN CommentLine(lines[i]) ELSE lines[i]]

\* _comment_section(start_line, end_line)
CommentSection(lines, start_line, end_line) ==
    [i \in 1..Len(lines) |->
        IF start_line + 1 <= i /\ i <= end_line + 1
        THEN CommentLine(lines[i]) ELSE lines[i]]

\* _uncomment_section(start_line, end_line)
UncommentSection(lines, start_line, end_line) ==
    [i \in 1..Len(lines) |->
        IF start_line + 1 <= i /\ i <= end_line + 1
        THEN UncommentLine(lines[i]) ELSE lines[i]]

\* A variant of the search of toggle_section that does not look at the
\* state of the section.
FindToggleIndexAnyState(p, section_name, enabled) ==
    LET hits == {k \in 1..Len(p.sections) :
                    p.sections[k].name = section_name}
    IN  IF hits = {} THEN 0
        ELSE CHOOSE k \in hits : \A j \in hits : k <= j

\* The index (1-based) of the section toggle_section acts on: the first one
\* of that name whose state differs from the one asked for; 0 if none.
FindToggleIndex(p, section_name, enabled) ==
    LET hits == {k \in 1..Len(p.sections) :
                    /\ p.sections[k].name = section_name
                    /\ p.sections[k].enabled # enabled}
    IN  IF hits = {} THEN 0
        ELSE CHOOSE k \in hits : \A j \in hits : k <= j

\* PS1Parser.toggle_section: the value returned and the parser after.
ParserToggleSection(p, section_name, enabled) ==
    LET k == FindToggleIndex(p, section_name, enabled)
    IN  IF k = 0 THEN [ret |-> FALSE, parser |-> p]
        ELSE LET sec == p.sections[k]
                 new_lines ==
                     IF enabled
                     THEN UncommentSection(p.lines, sec.start_line,
                                           sec.end_line)
                     ELSE CommentSection(p.lines, sec.start_line,
                                         sec.end_line)
             IN  [ret |-> TRUE,
                  parser |-> [p EXCEPT !.lines = new_lines,
                                       !.sections[k].enabled = enabled]]

\* get_modified_content
GetModifiedContent(p) == JoinLines(p.lines)

\* get_all_urls: the list urls, whose entries are entries of parameters.
GetAllUrls(p) == p.urls

(***************************************************************************)
(* PowerShellEditor: the files                                             *)
(*                                                                         *)
(* script is the text of the script file.  versions is the versions        *)
(* directory, a function from file names to file texts; the name of a      *)
(* version file is the pair <<label, timestamp>> that create_version       *)
(* builds it from ("" for no label).  now is the clock, in the seconds     *)
(* strftime("%Y%m%d_%H%M%S") resolves.                                     *)
(***************************************************************************)
VARIABLES script, versions, parser, now, nops, last

vars == <<script, versions, parser, now, nops, last>>

\* Reading in text mode with newline=None: \r\n and \r become \n.
UniversalNewlines(c) ==
    LET marked == [i \in 1..Len(c) |->
                      IF c[i] # CR THEN c[i]
                      ELSE IF i < Len(c) /\ c[i + 1] = NL THEN ""
                      ELSE NL]
    IN  SelectSeq(marked, LAMBDA t : t # "")

\* read_script
ReadScript(file) == UniversalNewlines(file)

\* _load_parser
LoadParser(file) == NewParser(ReadScript(file))

\* The file name create_version builds.
VersionName(version_name, time) == <<version_name, time>>

\* create_version: shutil.copy2 of the script file to the version file,
\* replacing a file of that name.
CreateVersion(file, dir, version_name, time) ==
    LET name == VersionName(version_name, time)
    IN  [n \in DOMAIN dir \cup {name} |-> IF n = name THEN file ELSE dir[n]]

\* A variant of write_script that writes first and snapshots after.
WriteScriptThenBackup(file, dir, content, create_backup, time) ==
    [script |-> content,
     versions |-> IF create_backup
                  THEN CreateVersion(content, dir, "auto_backup", time)
                  ELSE dir]

\* write_script: the script file and the versions directory after.
WriteScript(file, dir, content, create_backup, time) ==
    [script |-> content,
     versions |-> IF create_backup
                  THEN CreateVersion(file, dir, "auto_backup", time)
                  ELSE dir]

\* A variant of restore_version that copies first and snapshots after.
RestoreVersionThenBackup(file, dir, version_path, create_backup, time) ==
    [script |-> dir[version_path],
     versions |-> IF create_backup
                  THEN CreateVersion(dir[version_path], dir,
                                     "before_restore", time)
                  ELSE dir]

\* restore_version, for a version file that exists.
RestoreVersion(file, dir, version_path, create_backup, time) ==
    LET backed == IF create_backup
                  THEN CreateVersion(file, dir, "before_restore", time)
                  ELSE dir
    IN  [script |-> backed[version_path], versions |-> backed]

\* The labels of the version files of the model in the order in which
\* sorted() puts the file names they give (str comparison, by code point):
\* after the common stem, a name without label goes on with a digit of the
\* timestamp, which sorts before every letter; the labelled names differ in
\* the label.
LabelOrder == <<"", "auto_backup", "before_restore", "v0", "v1">>

\* The place of a label in LabelOrder.
LabelRank(label) == CHOOSE k \in 1..Len(LabelOrder) : LabelOrder[k] = label

\* File name a sorts before file name b: by the label, and for one label by
\* the timestamp, whose text has a fixed width.
NameBefore(a, b) ==
    \/ LabelRank(a[1]) < LabelRank(b[1])
    \/ a[1] = b[1] /\ a[2] < b[2]

\* list_versions: the version files in the order of
\* sorted(glob("*.ps1"), reverse=True); a record is stood for by its name.
ListVersions(dir) ==
    [i \in 1..Cardinality(DOMAIN dir) |->
        CHOOSE n \in DOMAIN dir :
            Cardinality({m \in DOMAIN dir : NameBefore(n, m)}) = i - 1]

\* delete_version, for the files of a set of names
DeleteVersions(dir, names) == [n \in DOMAIN dir \ names |-> dir[n]]

\* cleanup_old_versions: the names deleted, versions[keep_count:] of the
\* list.
OldVersions(dir, keep_count) ==
    LET listed == ListVersions(dir)
    IN  IF Len(listed) <= keep_count THEN {}
        ELSE {listed[i] : i \in (keep_count + 1)..Len(listed)}

(***************************************************************************)
(* Bounds and inputs                                                       *)
(***************************************************************************)
\* The calls of one run, and the last second of the clock (it starts at 1).
MaxOps == 2
MaxTime == 2

\* The lines of a deployment script: a session block with one string
\* parameter, a download URL, an Install section (a comment line and two
\* commands), a Post-Install section whose first command is commented out,
\* a Pre-Uninstall section whose first command is commented out and whose
\* marker is written without the blank, and an Uninstall section of one
\* command.
ScriptLines(vendor) ==
    << <<"$", "adtSession", " ", "=", " ", "@", "{">>,
       <<" ", "AppVendor", " ", "=", " ", "'", vendor, "'">>,
       <<"}">>,
       <<"$", "Url1", " ", "=", " ", "'", "https", ":", "/", "/", "example",
         ".", "com", "/", "a", ".", "zip", "'">>,
       <<"#", "#", " ", "MARK", ":", " ", "Install">>,
       <<"#", "#", " ", "doc">>,
       <<"Run">>,
       <<"Stop">>,
       <<"#", "#", " ", "MARK", ":", " ", "Post", "-", "Install">>,
       <<"#", " ", "Old">>,
       <<"Done">>,
       <<"#", "#", "MARK", ":", " ", "Pre", "-", "Uninstall">>,
       <<"#", " ", "Ask">>,
       <<"Warn">>,
       <<"#", "#", " ", "MARK", ":", " ", "Uninstall">>,
       <<"Remove">> >>

\* The script as a file with LF line ends.
ScriptOf(vendor) == JoinLines(ScriptLines(vendor))

\* The text with every line break written as CR LF.
ToCRLF(c) ==
    LET n == Cardinality({i \in 1..Len(c) : c[i] = NL})
        \* the place in the result of token i of c
        At(i) == i + Cardinality({j \in 1..i : c[j] = NL})
    IN  [m \in 1..(Len(c) + n) |->
            IF \E i \in 1..Len(c) : At(i) = m
            THEN c[CHOOSE i \in 1..Len(c) : At(i) = m]
            ELSE CR]

\* The script the editor is opened on: a file with CR LF line ends.
InitialScript == ToCRLF(ScriptOf("Acme"))

\* The versions directory the editor is opened on: one snapshot, labelled
\* v0, that an earlier session took of the script as it then was.
InitialVersions == [n \in {<<"v0", 0>>} |-> ScriptOf("Initech")]

\* Values a caller passes: a word, and a Windows path (C:\new).
Values == {<<"Globex">>, <<"C", ":", BSL, "n", "ew">>}

\* The calls of update_parameter(param_name, new_value, create_backup): the
\* scanned name with each value, with and without a backup, and the name
\* that is not scanned.
UpdateCalls ==
    ({<<"AppVendor">>} \X Values \X BOOLEAN)
        \cup {<< <<"Nope">>, <<"Globex">>, TRUE >>}

\* Section names a caller passes: the four of the script.
SectionNames == {"Install", "Post-Install", "Pre-Uninstall", "Uninstall"}

\* The updates dictionaries a caller passes, as the sequence of their
\* items in insertion order: two parameters of the script, none, and one
\* after a name the script has not.
Batches ==
    { << <<(<<"AppVendor">>), (<<"Globex">>)>>,
         <<(<<"Url1">>), (<<"ftp", ":", "/", "/", "h">>)>> >>,
      << <<(<<"Nope">>), (<<"Globex">>)>> >>,
      << <<(<<"Nope">>), (<<"Globex">>)>>,
         <<(<<"AppVendor">>), (<<"C", ":", BSL, "n", "ew">>)>> >> }

\* Labels a caller passes to create_version ("" for none).
Labels == {"", "v1"}

\* The keep_count a caller passes to cleanup_old_versions.
KeepCounts == {0, 1}

\* A version path that names no file.
MissingVersion == <<"gone", 0>>

\* The calls of restore_version(version_path, create_backup) with the
\* versions directory as it is: every stored version, with and without a
\* backup, and the path that names no file.
RestoreCalls(dir) == ((DOMAIN dir) \X BOOLEAN) \cup {<<MissingVersion, TRUE>>}

\* The record of a call: its name, its arguments, the second it was made in
\* (time), what it returned or the exception it raised (error), and how
\* often it wrote the script file (writes) and called create_version
\* (snapshots).
NoCall ==
    [op |-> "init", name |-> <<>>, value |-> <<>>, section |-> "",
     enabled |-> FALSE, backup |-> FALSE, version |-> <<"", 0>>,
     updates |-> <<>>, keep_count |-> 0, ret |-> FALSE, results |-> <<>>,
     error |-> "", listing |-> <<>>, deleted |-> 0, writes |-> 0,
     snapshots |-> 0, time |-> 0]

(***************************************************************************)
(* PowerShellEditor: the operations                                        *)
(***************************************************************************)
Init ==
    /\ script = InitialScript
    /\ versions = InitialVersions
    /\ parser = LoadParser(InitialScript)
    /\ now = 1
    /\ nops = 0
    /\ last = NoCall

\* A second passes.  The clock reads 1 at the first call; two calls are in
\* the same second or in two seconds that follow each other; the time after
\* the last call of a run is left out.
Tick ==
    /\ now < MaxTime
    /\ 0 < nops
    /\ nops < MaxOps
    /\ now = last.time
    /\ now' = now + 1
    /\ UNCHANGED <<script, versions, parser, nops, last>>

\* A variant of update_parameter that does not test what the parser
\* returned before it writes.
UpdateParameterUnchecked(param_name, new_value, create_backup) ==
    LET r == ParserUpdateParameter(parser, param_name, new_value)
        w == WriteScript(script, versions, GetModifiedContent(r.parser),
                         create_backup, now)
    IN  /\ nops < MaxOps
        /\ nops' = nops + 1
        /\ last' = [NoCall EXCEPT !.time = now, !.op = "update_parameter",
                                  !.name = param_name,
                                  !.value = new_value,
                                  !.backup = create_backup,
                                  !.ret = r.ret,
                                  !.writes = 1,
                                  !.snapshots = IF create_backup THEN 1 ELSE 0]
        /\ script' = w.script
        /\ versions' = w.versions
        /\ parser' = LoadParser(w.script)
        /\ UNCHANGED now

\* update_parameter(param_name, new_value, create_backup)
UpdateParameter(param_name, new_value, create_backup) ==
    LET r == ParserUpdateParameter(parser, param_name, new_value)
        w == WriteScript(script, versions, GetModifiedContent(r.parser),
                         create_backup, now)
    IN  /\ nops < MaxOps
        /\ nops' = nops + 1
        /\ last' = [NoCall EXCEPT !.time = now, !.op = "update_parameter",
                                  !.name = param_name,
                                  !.value = new_value,
                                  !.backup = create_backup,
                                  !.ret = r.ret,
                                  !.writes = IF r.ret THEN 1 ELSE 0,
                                  !.snapshots =
                                      IF r.ret /\ create_backup THEN 1 ELSE 0]
        /\ IF r.ret
           THEN /\ script' = w.script
                /\ versions' = w.versions
                /\ parser' = LoadParser(w.script)
           ELSE /\ parser' = r.parser
                /\ UNCHANGED <<script, versions>>
        /\ UNCHANGED now

\* toggle_section(section_name, enabled, create_backup); the calls of the
\* model leave create_backup at its default, True.
ToggleSection(section_name, enabled, create_backup) ==
    LET r == ParserToggleSection(parser, section_name, enabled)
        w == WriteScript(script, versions, GetModifiedContent(r.parser),
                         create_backup, now)
    IN  /\ nops < MaxOps
        /\ nops' = nops + 1
        /\ last' = [NoCall EXCEPT !.time = now, !.op = "toggle_section",
                                  !.section = section_name,
                                  !.enabled = enabled,
                                  !.backup = create_backup,
                                  !.ret = r.ret,
                                  !.writes = IF r.ret THEN 1 ELSE 0,
                                  !.snapshots =
                                      IF r.ret /\ create_backup THEN 1 ELSE 0]
        /\ IF r.ret
           THEN /\ script' = w.script
                /\ versions' = w.versions
                /\ parser' = LoadParser(w.script)
           ELSE /\ parser' = r.parser
                /\ UNCHANGED <<script, versions>>
        /\ UNCHANGED now

RECURSIVE BatchLoop(_, _, _)
\* The loop of batch_update_parameters from item k on: the parser after
\* and the results so far, one per item.
BatchLoop(p, updates, k) ==
    IF k > Len(updates) THEN [parser |-> p, results |-> <<>>]
    ELSE LET r == ParserUpdateParameter(p, updates[k][1], updates[k][2])
             rest == BatchLoop(r.parser, updates, k + 1)
         IN  [parser |-> rest.parser, results |-> <<r.ret>> \o rest.results]

RECURSIVE PerItemLoop(_, _, _, _)
\* A loop that treats every item as update_parameter does, with a write, a
\* snapshot and a rescan of its own.
PerItemLoop(st, updates, k, create_backup) ==
    IF k > Len(updates) THEN st
    ELSE LET r == ParserUpdateParameter(st.parser, updates[k][1],
                                        updates[k][2])
             w == WriteScript(st.script, st.versions,
                              GetModifiedContent(r.parser), create_backup,
                              now)
         IN  PerItemLoop(
                 IF r.ret
                 THEN [script |-> w.script, versions |-> w.versions,
                       parser |-> LoadParser(w.script),
                       results |-> st.results \o <<TRUE>>,
                       writes |-> st.writes + 1,
                       snapshots |-> st.snapshots
                                        + IF create_backup THEN 1 ELSE 0]
                 ELSE [st EXCEPT !.results = st.results \o <<FALSE>>],
                 updates, k + 1, create_backup)

\* A variant of batch_update_parameters that writes once per item.
BatchUpdatePerItem(updates, create_backup) ==
    LET st == PerItemLoop([script |-> script, versions |-> versions,
                           parser |-> parser, results |-> <<>>,
                           writes |-> 0, snapshots |-> 0],
                          updates, 1, create_backup)
    IN  /\ nops < MaxOps
        /\ nops' = nops + 1
        /\ last' = [NoCall EXCEPT !.time = now, !.op = "batch_update_parameters",
                                  !.updates = updates,
                                  !.backup = create_backup,
                                  !.ret = \E k \in 1..Len(st.results) :
                                             st.results[k],
                                  !.results = st.results,
                                  !.writes = st.writes,
                                  !.snapshots = st.snapshots]
        /\ script' = st.script
        /\ versions' = st.versions
        /\ parser' = st.parser
        /\ UNCHANGED now

\* batch_update_parameters(updates, create_backup); the calls of the model
\* leave create_backup at its default, True.
BatchUpdateParameters(updates, create_backup) ==
    LET b == BatchLoop(parser, updates, 1)
        modified == \E k \in 1..Len(b.results) : b.results[k]
        w == WriteScript(script, versions, GetModifiedContent(b.parser),
                         create_backup, now)
    IN  /\ nops < MaxOps
        /\ nops' = nops + 1
        /\ last' = [NoCall EXCEPT !.time = now, !.op = "batch_update_parameters",
                                  !.updates = updates,
                                  !.backup = create_backup,
                                  !.ret = modified,
                                  !.results = b.results,
                                  !.writes = IF modified THEN 1 ELSE 0,
                                  !.snapshots =
                                      IF modified /\ create_backup
                                      THEN 1 ELSE 0]
        /\ IF modified
           THEN /\ script' = w.script
                /\ versions' = w.versions
                /\ parser' = LoadParser(w.script)
           ELSE /\ parser' = b.parser
                /\ UNCHANGED <<script, versions>>
        /\ UNCHANGED now

\* create_version(version_name)
CreateVersionCall(version_name) ==
    /\ nops < MaxOps
    /\ nops' = nops + 1
    /\ versions' = CreateVersion(script, versions, version_name, now)
    /\ last' = [NoCall EXCEPT !.time = now, !.op = "create_version",
                              !.version = VersionName(version_name, now),
                              !.ret = TRUE,
                              !.snapshots = 1]
    /\ UNCHANGED <<script, parser, now>>

\* A variant of restore_version that takes the snapshot before it looks
\* for the version file.
RestoreVersionCallBackupFirst(version_path, create_backup) ==
    LET backed == IF create_backup
                  THEN CreateVersion(script, versions, "before_restore", now)
                  ELSE versions
    IN  /\ nops < MaxOps
        /\ nops' = nops + 1
        /\ last' = [NoCall EXCEPT !.time = now, !.op = "restore_version",
                                  !.version = version_path,
                                  !.backup = create_backup,
                                  !.ret = version_path \in DOMAIN backed,
                                  !.error =
                                      IF version_path \in DOMAIN backed
                                      THEN "" ELSE "FileNotFoundError",
                                  !.writes =
                                      IF version_path \in DOMAIN backed
                                      THEN 1 ELSE 0,
                                  !.snapshots =
                                      IF create_backup THEN 1 ELSE 0]
        /\ versions' = backed
        /\ script' = IF version_path \in DOMAIN backed
                     THEN backed[version_path] ELSE script
        /\ UNCHANGED <<parser, now>>

\* restore_version(version_path, create_backup); when the version file
\* does not exist the call raises FileNotFoundError and returns nothing
\* (ret is FALSE).
RestoreVersionCall(version_path, create_backup) ==
    /\ nops < MaxOps
    /\ nops' = nops + 1
    /\ last' = [NoCall EXCEPT !.time = now, !.op = "restore_version",
                              !.version = version_path,
                              !.backup = create_backup,
                              !.ret = version_path \in DOMAIN versions,
                              !.error =
                                  IF version_path \in DOMAIN versions
                                  THEN "" ELSE "FileNotFoundError",
                              !.writes =
                                  IF version_path \in DOMAIN versions
                                  THEN 1 ELSE 0,
                              !.snapshots =
                                  IF version_path \in DOMAIN versions
                                     /\ create_backup
                                  THEN 1 ELSE 0]
    /\ IF version_path \in DOMAIN versions
       THEN LET r == RestoreVersion(script, versions, version_path,
                                    create_backup, now)
            IN  /\ script' = r.script
                /\ versions' = r.versions
       ELSE UNCHANGED <<script, versions>>
    /\ UNCHANGED <<parser, now>>

\* list_versions()
ListVersionsCall ==
    /\ nops < MaxOps
    /\ nops' = nops + 1
    /\ last' = [NoCall EXCEPT !.time = now, !.op = "list_versions",
                              !.ret = TRUE,
                              !.listing = ListVersions(versions)]
    /\ UNCHANGED <<script, versions, parser, now>>

\* cleanup_old_versions(keep_count)
CleanupOldVersions(keep_count) ==
    LET old == OldVersions(versions, keep_count)
    IN  /\ nops < MaxOps
        /\ nops' = nops + 1
        /\ versions' = DeleteVersions(versions, old)
        /\ last' = [NoCall EXCEPT !.time = now, !.op = "cleanup_old_versions",
                                  !.keep_count = keep_count,
                                  !.ret = TRUE,
                                  !.deleted = Cardinality(old)]
        /\ UNCHANGED <<script, parser, now>>

Next ==
    \/ Tick
    \/ \E c \in UpdateCalls : UpdateParameter(c[1], c[2], c[3])
    \/ \E s \in SectionNames, e \in BOOLEAN : ToggleSection(s, e, TRUE)
    \/ \E u \in Batches : BatchUpdateParameters(u, TRUE)
    \/ \E l \in Labels : CreateVersionCall(l)
    \/ \E c \in RestoreCalls(versions) : RestoreVersionCall(c[1], c[2])
    \/ ListVersionsCall
    \/ \E k \in KeepCounts : CleanupOldVersions(k)

Spec == Init /\ [][Next]_vars

(***************************************************************************)
(* PS1Parser on its own: the scan of a text                                *)
(*                                                                         *)
(* A second specification for what the parser computes from a text: the    *)
(* text is drawn from the bounded sets below, and the one step is          *)
(* PS1Parser(text) followed by parse() and get_modified_content().         *)
(***************************************************************************)
\* The longest value of an assignment line, and the longest free text, in
\* tokens.
MaxValueLen == 4
MaxTextLen == 3

\* The sequences over a set of tokens of at most n tokens.
SeqsUpTo(S, n) == UNION {[1..k -> S] : k \in 0..n}

\* The tokens of the values: the quote, digits, the array brackets and the
\* boolean literal.
ValueTokens == {"'", "4", "2", "@", "(", ")", "$", "true"}

\* An assignment line of a session block.
AssignLine(value) == <<"Foo", " ", "=", " ">> \o value

\* A script that is a session block of one line.
SessionText(line) ==
    JoinLines(<< <<"$", "adtSession", " ", "=", " ", "@", "{">>, line,
                 <<"}">> >>)

\* The tokens of the free texts: a word, a blank, and the line ends.
TextTokens == {"a", " ", NL, CR}

\* The most lines between the marker of a section and the next marker or
\* the end of the text, and the most lines of a text of blocks.
MaxBodyLines == 6
MaxBlockLines == 4

\* The lines of the body of a section: a command, a commented-out command
\* and a closing brace.
BodyLines == {<<"Run">>, <<"#", " ", "Old">>, <<"}">>}

\* What follows the body: nothing, or another section.
SectionTails ==
    {<<>>, << <<"#", "#", " ", "MARK", ":", " ", "Uninstall">>, <<"Remove">> >>}

\* A script that is a section: its marker, its body, and what follows.
SectionText(body, tail) ==
    JoinLines(<< <<"#", "#", " ", "MARK", ":", " ", "Install">> >>
                  \o body \o tail)

\* The lines of a text of blocks: the start of the $adtSession hashtable,
\* the start of another hashtable, an assignment and a closing brace.
BlockLines ==
    {<<"$", "adtSession", " ", "=", " ", "@", "{">>,
     <<"$", "cfg", " ", "=", " ", "@", "{">>,
     <<"Foo", " ", "=", " ", "'", "4", "'">>,
     <<"}">>}

\* The texts a parser is made for.
ScanTexts ==
    {SessionText(AssignLine(v)) : v \in SeqsUpTo(ValueTokens, MaxValueLen)}
        \cup SeqsUpTo(TextTokens, MaxTextLen)
        \cup {SectionText(b, t) : b \in SeqsUpTo(BodyLines, MaxBodyLines),
                                  t \in SectionTails}
        \cup {JoinLines(ls) : ls \in SeqsUpTo(BlockLines, MaxBlockLines)}

\* No parser yet.
NoParser ==
    [lines |-> <<>>, parameters |-> <<>>, urls |-> <<>>, sections |-> <<>>]

ScanInit ==
    /\ script \in ScanTexts
    /\ versions = <<>>
    /\ parser = NoParser
    /\ now = 1
    /\ nops = 0
    /\ last = NoCall

\* PS1Parser(script_content), parse() and get_modified_content(): the
\* parser, and in last.value the text it gives back.
Parse ==
    /\ nops = 0
    /\ nops' = 1
    /\ parser' = NewParser(script)
    /\ last' = [NoCall EXCEPT
                   !.op = "parse",
                   !.ret = TRUE,
                   !.value = GetModifiedContent(NewParser(script))]
    /\ UNCHANGED <<script, versions, now>>

ScanNext == Parse

ScanSpec == ScanInit /\ [][ScanNext]_vars

(***************************************************************************)
(* PowerShellEditor on a second script                                     *)
(*                                                                         *)
(* A third specification: the editor opened on a script with a number      *)
(* parameter, a URL variable and a section that a closing brace ends, with *)
(* no versions stored, and the calls of update_parameter, toggle_section   *)
(* and batch_update_parameters below.                                      *)
(***************************************************************************)
\* The script: a session block with a string and a number (whose line has
\* a second  = digits  in a comment), a URL variable, and an Install
\* section of five commands that a closing brace ends, before a last line.
EditLines ==
    << <<"$", "adtSession", " ", "=", " ", "@", "{">>,
       <<" ", "AppVendor", " ", "=", " ", "'", "Acme", "'">>,
       <<" ", "Count", " ", "=", " ", "5", " ", "#", " ", "max", " ", "=",
         " ", "9">>,
       <<"}">>,
       <<"$", "Url1", " ", "=", " ", "'", "https", ":", "/", "/", "h", "'">>,
       <<"#", "#", " ", "MARK", ":", " ", "Install">>,
       <<"Run">>,
       <<"Run">>,
       <<"Run">>,
       <<"Run">>,
       <<"Run">>,
       <<"}">>,
       <<"Done">> >>

EditScript == JoinLines(EditLines)

\* The calls of update_parameter(param_name, new_value): each scanned
\* parameter by its bare name and by its name after a $.
EditUpdateCalls ==
    {<< <<"AppVendor">>, <<"Globex">> >>,
     << <<"$", "AppVendor">>, <<"Globex">> >>,
     << <<"Count">>, <<"7">> >>,
     << <<"$", "Count">>, <<"7">> >>,
     << <<"Url1">>, <<"ftp", ":", "/", "/", "h">> >>,
     << <<"$", "Url1">>, <<"ftp", ":", "/", "/", "h">> >>}

\* The updates dictionaries of batch_update_parameters, as the sequence of
\* their items in insertion order: two parameters, and the URL variable
\* under its two names.
EditBatches ==
    { << <<(<<"AppVendor">>), (<<"Globex">>)>>,
         <<(<<"Count">>), (<<"7">>)>> >>,
      << <<(<<"Url1">>), (<<"Globex">>)>>,
         <<(<<"$", "Url1">>), (<<"ftp", ":", "/", "/", "h">>)>> >> }

EditInit ==
    /\ script = EditScript
    /\ versions = <<>>
    /\ parser = LoadParser(EditScript)
    /\ now = 1
    /\ nops = 0
    /\ last = NoCall

EditNext ==
    \/ Tick
    \/ \E c \in EditUpdateCalls : UpdateParameter(c[1], c[2], TRUE)
    \/ \E e \in BOOLEAN : ToggleSection("Install", e, TRUE)
    \/ \E u \in EditBatches : BatchUpdateParameters(u, TRUE)

EditSpec == EditInit /\ [][EditNext]_vars

(***************************************************************************)
(* Properties                                                              *)
(***************************************************************************)
\* The step is a call of the operation: every call counts one in nops and
\* leaves its name, its arguments and its result in last.
Called(op) == nops' = nops + 1 /\ last'.op = op

Mutations == {"update_parameter", "toggle_section", "batch_update_parameters"}

\* The lines of the script file.
FileLines(file) == SplitLines(ReadScript(file))

\* C1: a call of update_parameter, toggle_section or
\* batch_update_parameters, successful or not, leaves the script with as
\* many lines as it had: in the editor's list of lines and in the file.
C1_LineCountKept ==
    [][(nops' = nops + 1 /\ last'.op \in Mutations) =>
          /\ Len(parser'.lines) = Len(parser.lines)
          /\ Len(FileLines(script')) = Len(FileLines(script))]_vars

\* C2: after update_parameter(name, v) returns true, the rescanned
\* parameters hold one of that name (with or without the sigil) whose value
\* is v.
C2_ValueRoundTrip ==
    [][(Called("update_parameter") /\ last'.ret) =>
          \E k \in 1..Len(parser'.parameters) :
              /\ parser'.parameters[k].name
                     \in {last'.name, <<"$">> \o last'.name}
              /\ parser'.parameters[k].value = last'.value]_vars

\* The parameters of the editor the name stands for.
Located(name) ==
    {k \in 1..Len(parser.parameters) :
        parser.parameters[k].name \in {name, <<"$">> \o name}}

\* C3: a successful update_parameter rewrites one line, the one at the
\* line_number of a parameter of that name; the script keeps its length
\* and every other line is what it was before the call.
C3_OneLineRewritten ==
    [][(Called("update_parameter") /\ last'.ret) =>
          \E k \in Located(last'.name) :
              /\ Len(parser'.lines) = Len(parser.lines)
              /\ \A i \in 1..Len(parser.lines) :
                     i # parser.parameters[k].line_number + 1 =>
                         parser'.lines[i] = parser.lines[i]]_vars

\* C4: a successful toggle_section rewrites only lines of one section of
\* that name: the script keeps its length, and every line outside
\* [start_line, end_line] of that section is, in the editor's lines and in
\* the file written, what it was in the editor's lines before the call.
C4_ToggleFrame ==
    [][(Called("toggle_section") /\ last'.ret) =>
          \E k \in 1..Len(parser.sections) :
              /\ parser.sections[k].name = last'.section
              /\ Len(parser'.lines) = Len(parser.lines)
              /\ FileLines(script') = parser'.lines
              /\ \A i \in 1..Len(parser.lines) :
                     (i < parser.sections[k].start_line + 1
                      \/ i > parser.sections[k].end_line + 1) =>
                         parser'.lines[i] = parser.lines[i]]_vars

\* A successful toggle_section(name, false) has acted: a line of the
\* section carries the comment prefix, the session block before it does not.
C4_Witness ==
    /\ last.op = "toggle_section"
    /\ last.ret
    /\ ~last.enabled
    /\ \E i \in 1..Len(parser.lines) :
           StartsWith(parser.lines[i], CommentPrefix)
    /\ parser.lines[3] = <<"}">>

\* C5: when a mutation succeeds with create_backup on, the snapshot named
\* auto_backup for the second of the call holds the script file as it was
\* before the call, the file holds what the call wrote, and the editor's
\* scan is the scan of the file as written.
C5_SnapshotThenWrite ==
    [][(nops' = nops + 1 /\ last'.op \in Mutations /\ last'.ret
           /\ last'.backup) =>
          /\ VersionName("auto_backup", now) \in DOMAIN versions'
          /\ versions'[VersionName("auto_backup", now)] = script
          /\ \A text \in {ReadScript(script')} : parser' = NewParser(text)]_vars

\* A mutation with a backup has changed the file: the snapshot differs
\* from the script.
C5_Witness ==
    /\ last.op \in Mutations
    /\ last.ret
    /\ last.backup
    /\ \E n \in DOMAIN versions : n[1] = "auto_backup" /\ versions[n] # script

\* C6: after restore_version(v, create_backup = true) returns, the script
\* file as it was before the call is the content of a stored version.
C6_RestoreKeepsOld ==
    [][(Called("restore_version") /\ last'.ret /\ last'.backup) =>
          \E n \in DOMAIN versions' : versions'[n] = script]_vars

\* A restore with a backup has replaced the script: the snapshot taken
\* before it differs from the script.
C6_Witness ==
    /\ last.op = "restore_version"
    /\ last.ret
    /\ last.backup
    /\ \E n \in DOMAIN versions :
           n[1] = "before_restore" /\ versions[n] # script

\* C7: after restore_version(v, with_backup) returns true, the script file
\* holds what version v held when the call was made.
C7_RestoredContent ==
    [][(Called("restore_version") /\ last'.ret) =>
          script' = versions[last'.version]]_vars

\* C8: update_parameter with a name no scanned parameter has (with or
\* without the sigil) returns false and changes nothing: not the file, not
\* the versions, not the scan.
C8_UnknownNameNoOp ==
    [][(Called("update_parameter") /\ Located(last'.name) = {}) =>
          /\ ~last'.ret
          /\ script' = script
          /\ versions' = versions
          /\ parser' = parser]_vars

\* update_parameter was called with a name that is not scanned.
C8_Witness ==
    /\ last.op = "update_parameter"
    /\ Located(last.name) = {}
    /\ ~last.ret
    /\ Len(parser.parameters) > 0

\* The sections of the editor of that name.
Named(section_name) ==
    {k \in 1..Len(parser.sections) : parser.sections[k].name = section_name}

\* C9: toggle_section(name, e), where the section of that name is reported
\* in state e, returns false and changes neither the file nor the versions
\* nor the editor's lines.
C9_SameStateNoOp ==
    [][(/\ Called("toggle_section")
        /\ Named(last'.section) # {}
        /\ \A k \in Named(last'.section) :
               parser.sections[k].enabled = last'.enabled) =>
          /\ ~last'.ret
          /\ script' = script
          /\ versions' = versions
          /\ parser' = parser]_vars

\* toggle_section was called for a scanned section with the state it has.
C9_Witness ==
    /\ last.op = "toggle_section"
    /\ ~last.ret
    /\ \E k \in Named(last.section) :
           parser.sections[k].enabled = last.enabled

\* C10: toggle_section(name, not s) and then toggle_section(name, s), for
\* a section reported in state s (so that the first call returns true),
\* leave the rescanned section in state s.
C10_ToggleBackRestoresFlag ==
    [][(/\ last.op = "toggle_section"
        /\ last.ret
        /\ Called("toggle_section")
        /\ last'.section = last.section
        /\ last'.enabled = ~last.enabled) =>
          \A k \in 1..Len(parser'.sections) :
              parser'.sections[k].name = last'.section =>
                  parser'.sections[k].enabled = last'.enabled]_vars

\* The line begins, after its indentation, with the comment token.
BeginsWithComment(line) == StartsWith(Strip(line), <<"#">>)

\* C11: after toggle_section(name, false) returns true for a section the
\* editor reports enabled, every line of [start_line, end_line] of that
\* section begins with the comment token (the marker line does by its
\* form), and the rescan reports the section of that name at that
\* start_line as not enabled.
C11_DisableCommentsAndReports ==
    [][(Called("toggle_section") /\ last'.ret /\ ~last'.enabled) =>
          \A k \in Named(last'.section) :
              parser.sections[k].enabled =>
                  /\ \A i \in (parser.sections[k].start_line + 1)
                                ..(parser.sections[k].end_line + 1) :
                         BeginsWithComment(parser'.lines[i])
                  /\ \A j \in 1..Len(parser'.sections) :
                         (/\ parser'.sections[j].name = last'.section
                          /\ parser'.sections[j].start_line
                                 = parser.sections[k].start_line) =>
                             ~parser'.sections[j].enabled]_vars

\* The line is one the scanner takes for the marker of a section.
IsSectionMarker(line) ==
    \E k \in 1..Len(SectionPatterns) : MatchesSection(SectionPatterns[k], line)

\* The sections of a scan as the set of their names and start lines.
Discovered(p) ==
    {<<p.sections[k].name, p.sections[k].start_line>> :
        k \in 1..Len(p.sections)}

\* C12: a successful toggle_section, in either direction, leaves every
\* line the scanner takes for a section marker as it was, and the rescan
\* finds the same sections: the same names at the same start lines.
C12_MarkersKept ==
    [][(Called("toggle_section") /\ last'.ret) =>
          /\ \A i \in 1..Len(parser.lines) :
                 IsSectionMarker(parser.lines[i]) =>
                     parser'.lines[i] = parser.lines[i]
          /\ Discovered(parser') = Discovered(parser)]_vars

\* C13: batch_update_parameters reports for every name whether a parameter
\* of that name was found; if one was, the call writes the script file once
\* and, with create_backup on, takes one snapshot, which holds the file as
\* it was before the call; if none was, the call writes nothing and takes
\* no snapshot.
C13_BatchWritesOnce ==
    [][Called("batch_update_parameters") =>
          /\ Len(last'.results) = Len(last'.updates)
          /\ \A k \in 1..Len(last'.updates) :
                 last'.results[k] = (Located(last'.updates[k][1]) # {})
          /\ IF \E k \in 1..Len(last'.results) : last'.results[k]
             THEN /\ last'.writes = 1
                  /\ last'.snapshots = IF last'.backup THEN 1 ELSE 0
                  /\ versions' = IF last'.backup
                                  THEN CreateVersion(script, versions,
                                                     "auto_backup", now)
                                  ELSE versions
             ELSE /\ last'.writes = 0
                  /\ last'.snapshots = 0
                  /\ script' = script
                  /\ versions' = versions]_vars

\* A batch with a backup has updated two parameters: the URL and the
\* vendor both have their new values in the file.
C13_Witness ==
    /\ last.op = "batch_update_parameters"
    /\ last.backup
    /\ Cardinality({k \in 1..Len(last.results) : last.results[k]}) = 2
    /\ Contains(script, <<"'", "ftp", ":", "/", "/", "h", "'">>)
    /\ Contains(script, <<"'", "Globex", "'">>)

\* C14: list_versions returns the versions most recent first: of two
\* versions taken in different seconds, the one taken later comes first in
\* the list, whatever the labels.
C14_MostRecentFirst ==
    [][Called("list_versions") =>
          /\ {last'.listing[i] : i \in 1..Len(last'.listing)} = DOMAIN versions
          /\ \A i, j \in 1..Len(last'.listing) :
                 last'.listing[i][2] > last'.listing[j][2] => i < j]_vars

\* C15: cleanup_old_versions(keep_count), with n versions stored, deletes
\* max(0, n - keep_count) of them and returns that number; the versions
\* left are untouched and none of them was taken before one that was
\* deleted.
C15_KeepsMostRecent ==
    [][Called("cleanup_old_versions") =>
          LET n == Cardinality(DOMAIN versions)
              gone == DOMAIN versions \ DOMAIN versions'
              due == IF n > last'.keep_count THEN n - last'.keep_count ELSE 0
          IN  /\ DOMAIN versions' \subseteq DOMAIN versions
              /\ Cardinality(gone) = due
              /\ last'.deleted = due
              /\ \A a \in DOMAIN versions' : versions'[a] = versions[a]
              /\ \A a \in DOMAIN versions', b \in gone : a[2] >= b[2]]_vars

\* C16: restore_version for a version path that names no file raises
\* FileNotFoundError and leaves the script file and the stored versions as
\* they were, with create_backup on as well: no snapshot is taken.
C16_MissingVersionNoOp ==
    [][(Called("restore_version") /\ last'.version \notin DOMAIN versions) =>
          /\ last'.error = "FileNotFoundError"
          /\ ~last'.ret
          /\ last'.snapshots = 0
          /\ script' = script
          /\ versions' = versions]_vars

\* restore_version was called with create_backup on for a path that names
\* no file, while versions are stored.
C16_Witness ==
    /\ last.op = "restore_version"
    /\ last.backup
    /\ last.version \notin DOMAIN versions
    /\ last.error = "FileNotFoundError"
    /\ DOMAIN versions # {}

\* The four shapes of _parse_variable_line, each on its own: what follows
\* the head  name =  of the line.
StringShape(line) ==
    LET h == AssignHead(line)
    IN  /\ h.ok
        /\ h.v <= Len(line)
        /\ IsQuote(line[h.v])
        /\ \E j \in (h.v + 1)..Len(line) : IsQuote(line[j])

NumberShape(line) ==
    LET h == AssignHead(line)
    IN  h.ok /\ h.v <= Len(line) /\ IsDigit(line[h.v])

ArrayShape(line) ==
    LET h == AssignHead(line)
    IN  /\ h.ok
        /\ MatchAt(line, h.v, <<"@", "(">>)
        /\ \E j \in (h.v + 2)..Len(line) : line[j] = ")"

BooleanShape(line) ==
    LET h == AssignHead(line)
    IN  /\ h.ok
        /\ h.v + 1 <= Len(line)
        /\ line[h.v] = "$"
        /\ IsBoolWord(line[h.v + 1])

\* The kind the order String, Number, Array, Boolean gives a line; "none"
\* for a line of no shape.
FirstShape(line) ==
    IF StringShape(line) THEN "string"
    ELSE IF NumberShape(line) THEN "number"
    ELSE IF ArrayShape(line) THEN "array"
    ELSE IF BooleanShape(line) THEN "boolean"
    ELSE "none"

\* The script scanned is a session block of one line.
IsSessionText ==
    /\ last.op = "parse"
    /\ Len(parser.lines) = 3
    /\ IsSessionStart(parser.lines[1])
    /\ parser.lines[3] = <<"}">>

\* C17: the line of a session block is given the kind of the first shape
\* it has in the order String, Number, Array, Boolean, and is no parameter
\* if it has none; the line  Foo = '42'  is the String parameter Foo of
\* value 42.
C17_ClassificationPrecedence ==
    IsSessionText =>
        LET line == parser.lines[2]
        IN  /\ IF FirstShape(line) = "none"
               THEN parser.parameters = <<>>
               ELSE /\ Len(parser.parameters) = 1
                    /\ parser.parameters[1].parameter_type = FirstShape(line)
                    /\ parser.parameters[1].name = <<"Foo">>
            /\ line = AssignLine(<<"'", "4", "2", "'">>) =>
                   parser.parameters
                       = <<ScriptParameter(<<"Foo">>, <<"4", "2">>, 1,
                                           "string", "variables")>>

\* The scan of the session block whose line is  Foo = '42'.
C17_Witness ==
    /\ IsSessionText
    /\ parser.lines[2] = AssignLine(<<"'", "4", "2", "'">>)
    /\ Len(parser.parameters) = 1

\* The line  $Url1 = 'https://example.com/a.zip'.
ExampleUrlLine ==
    <<"$", "Url1", " ", "=", " ", "'", "https", ":", "/", "/", "example",
      ".", "com", "/", "a", ".", "zip", "'">>

\* C18: at every time, every entry of get_urls() is an entry of
\* get_parameters(), of kind url; and a line
\* $Url1 = 'https://example.com/a.zip'  of the scanned text is a parameter
\* $Url1 with that value in both lists.
C18_UrlsAreParameters ==
    /\ \A k \in 1..Len(GetAllUrls(parser)) :
           /\ GetAllUrls(parser)[k] \in 1..Len(parser.parameters)
           /\ parser.parameters[GetAllUrls(parser)[k]].parameter_type = "url"
    /\ \A i \in 1..Len(parser.lines) :
           parser.lines[i] = ExampleUrlLine =>
               \E k \in 1..Len(GetAllUrls(parser)) :
                   /\ GetAllUrls(parser)[k] \in 1..Len(parser.parameters)
                   /\ parser.parameters[GetAllUrls(parser)[k]]
                          = ScriptParameter(
                                <<"$", "Url1">>,
                                SubSeq(ExampleUrlLine, 7, 17),
                                i - 1, "url", "install")

\* A batch has given the URL variable another URL, and the rescan has it
\* in both lists.
C18_Witness ==
    /\ last.op = "batch_update_parameters"
    /\ last.ret
    /\ \E k \in 1..Len(GetAllUrls(parser)) :
           /\ GetAllUrls(parser)[k] \in 1..Len(parser.parameters)
           /\ parser.parameters[GetAllUrls(parser)[k]].value
                  = <<"ftp", ":", "/", "/", "h">>

\* Every line of the file ends in CR LF; no line of the file does.
IsCRLF(file) ==
    /\ \E i \in 1..Len(file) : file[i] = NL
    /\ \A i \in 1..Len(file) : file[i] = NL => (i > 1 /\ file[i - 1] = CR)

IsLF(file) == \A i \in 1..Len(file) : file[i] # CR

\* C19: a successful update_parameter, toggle_section or
\* batch_update_parameters leaves the line ends of the script file as they
\* were: a file of CR LF lines is one after the call, and a file of LF
\* lines is one after the call.
C19_NewlinesKept ==
    [][(nops' = nops + 1 /\ last'.op \in Mutations /\ last'.ret) =>
          /\ IsCRLF(script) => IsCRLF(script')
          /\ IsLF(script) => IsLF(script')]_vars

\* C20: for every text, the parser made for it and run, with no mutation,
\* gives the text back from get_modified_content().
C20_RoundTripIdentity ==
    last.op = "parse" =>
        /\ last.value = script
        /\ GetModifiedContent(parser) = script

\* The parser was made for a text of a CR LF line that ends in its line
\* break.
C20_Witness ==
    /\ last.op = "parse"
    /\ script = <<"a", CR, NL>>
    /\ Len(parser.lines) = 2

\* The end line the rule gives a section whose marker is at line s: the
\* line before the next marker-comment line if there is one; without one,
\* the first line at or after s + 5 whose trimmed text is }; without
\* either, the last line.
RuleEnd(lines, s) ==
    LET later == {i \in (s + 1)..(Len(lines) - 1) :
                     IsMarkLine(lines[i + 1])}
        braces == {i \in (s + 5)..(Len(lines) - 1) :
                      Strip(lines[i + 1]) = <<"}">>}
    IN  IF later # {} THEN MinOf(later) - 1
        ELSE IF braces # {} THEN MinOf(braces)
        ELSE Len(lines) - 1

\* C21: every section the scan of a text finds ends where the rule says:
\* before the next marker if a later marker exists, else at the first line
\* at or after start_line + 5 that is exactly }, else at the last line.
C21_SectionEndRule ==
    last.op = "parse" =>
        \A k \in 1..Len(parser.sections) :
            parser.sections[k].end_line =
                RuleEnd(parser.lines, parser.sections[k].start_line)

\* The flag the rule gives a section of lines start_line..end_line: of
\* the lines start_line .. min(end_line, start_line + 9) that are not blank
\* and do not start with ##, fewer than half start with #, or there is
\* none.
RuleEnabled(lines, start_line, end_line) ==
    LET window == start_line..MinOf({end_line, start_line + 9})
        total == {i \in window :
                     /\ Strip(lines[i + 1]) # <<>>
                     /\ ~StartsWith(Strip(lines[i + 1]), <<"#", "#">>)}
        commented == {i \in total : StartsWith(Strip(lines[i + 1]), <<"#">>)}
    IN  \/ Cardinality(total) = 0
        \/ 2 * Cardinality(commented) < Cardinality(total)

\* C22: every section the scan of a text finds is reported enabled exactly
\* when the rule says so, with the lines counted up to and including
\* end_line.
C22_EnabledRule ==
    last.op = "parse" =>
        \A k \in 1..Len(parser.sections) :
            parser.sections[k].enabled =
                RuleEnabled(parser.lines, parser.sections[k].start_line,
                            parser.sections[k].end_line)

\* The lines of the sections of that name in the scan of the lines that
\* do not start with the comment token.
CommandLines(lines, section_name) ==
    LET secs == ParseSections(lines)
    IN  {i \in 1..Len(lines) :
            /\ \E k \in 1..Len(secs) :
                   /\ secs[k].name = section_name
                   /\ secs[k].start_line + 1 <= i
                   /\ i <= secs[k].end_line + 1
            /\ ~BeginsWithComment(lines[i])}

\* C23: when toggle_section(name, false) has returned true, which it does
\* for a section reported enabled, a following toggle_section(name, true)
\* returns true, and every line of the section that did not start with a
\* comment token before the two calls has its text of then.  (The file
\* before the first call is its auto_backup snapshot.)
C23_DisableEnableRestores ==
    [][(/\ last.op = "toggle_section"
        /\ last.ret
        /\ ~last.enabled
        /\ last.backup
        /\ Called("toggle_section")
        /\ last'.section = last.section
        /\ last'.enabled) =>
          /\ last'.ret
          /\ \A orig \in {FileLines(versions[VersionName("auto_backup",
                                                          last.time)])} :
                 \A i \in CommandLines(orig, last.section) :
                     /\ i <= Len(parser'.lines)
                     /\ parser'.lines[i] = orig[i]]_vars

\* The name without the $ it may start with.
BareName(name) ==
    IF Len(name) > 0 /\ name[1] = "$" THEN Tail(name) ELSE name

\* The parameters of the editor whose bare name is that of the name.
SameBare(name) ==
    {k \in 1..Len(parser.parameters) :
        BareName(parser.parameters[k].name) = BareName(name)}

\* C24: update_parameter called with the bare name of a scanned parameter,
\* or with that name after a $, returns true and rewrites the line of that
\* parameter and no other line.
C24_NameWithOrWithoutSigil ==
    [][(Called("update_parameter") /\ SameBare(last'.name) # {}) =>
          /\ last'.ret
          /\ \E k \in SameBare(last'.name) :
                 \A i \in 1..Len(parser.lines) :
                     i # parser.parameters[k].line_number + 1 =>
                         /\ i <= Len(parser'.lines)
                         /\ parser'.lines[i] = parser.lines[i]]_vars

\* A line of the form  $<identifier> = @{
IsHashtableStart(line) ==
    /\ Len(line) >= 2
    /\ line[1] = "$"
    /\ IsWord(line[2])
    /\ LET c == SkipSpace(line, 3)
       IN  /\ c <= Len(line)
           /\ line[c] = "="
           /\ MatchAt(line, SkipSpace(line, c + 1), <<"@", "{">>)

RECURSIVE BlockMachine(_, _, _)
\* The two-state machine from line i (1-based) on: a line of the form
\* $<identifier> = @{ enters a block, a line whose trimmed text is } leaves
\* it, and every line between that the classifier matches is a parameter
\* tagged variables.
BlockMachine(lines, i, inside) ==
    IF i > Len(lines) THEN <<>>
    ELSE IF IsHashtableStart(lines[i]) THEN BlockMachine(lines, i + 1, TRUE)
    ELSE IF inside /\ Strip(lines[i]) = <<"}">>
    THEN BlockMachine(lines, i + 1, FALSE)
    ELSE IF inside
    THEN ParseVariableLine(lines[i], i - 1, "variables")
             \o BlockMachine(lines, i + 1, TRUE)
    ELSE BlockMachine(lines, i + 1, FALSE)

\* C25: the parameters tagged variables that the scan of a text records are
\* those of the two-state machine: the classifier-matching lines between a
\* line  $<identifier> = @{  and the next line that is exactly }, and none
\* from a line outside a block.
C25_SessionBlockMachine ==
    last.op = "parse" =>
        SelectSeq(parser.parameters, LAMBDA q : q.section = "variables")
            = BlockMachine(parser.lines, 1, FALSE)

\* The line with the first run of digits that follows a = (and blanks)
\* replaced by the value, and nothing else changed.
FirstDigitsReplaced(line, value) ==
    LET starts == {j \in 1..Len(line) :
                      /\ line[j] = "="
                      /\ SkipDigit(line, SkipSpace(line, j + 1))
                             > SkipSpace(line, j + 1)}
        c == SkipSpace(line, MinOf(starts) + 1)
    IN  IF starts = {} THEN line
        ELSE SubSeq(line, 1, c - 1) \o value
                 \o SubSeq(line, SkipDigit(line, c), Len(line))

\* C26: a successful update_parameter of a Number parameter leaves the
\* parameter's line as it was but for the first run of digits after a =,
\* which is the new value.
C26_NumberFirstRunOnly ==
    [][(/\ Called("update_parameter")
        /\ last'.ret
        /\ parser.parameters[FindParamIndex(parser, last'.name)]
               .parameter_type = "number") =>
          LET ln == parser.parameters[FindParamIndex(parser, last'.name)]
                        .line_number + 1
          IN  /\ ln <= Len(parser'.lines)
              /\ parser'.lines[ln] =
                     FirstDigitsReplaced(parser.lines[ln], last'.value)]_vars

\* C27: after every call the editor's lines are the lines of the script
\* file; and a successful update_parameter that follows a successful
\* restore_version leaves the file as restored but for lines of parameters
\* of that name.
C27_ScannerInSync ==
    [][(nops' = nops + 1) =>
          \A before \in {FileLines(script)}, after \in {FileLines(script')} :
              /\ parser'.lines = after
              /\ (/\ last.op = "restore_version"
                  /\ last.ret
                  /\ last'.op = "update_parameter"
                  /\ last'.ret) =>
                     /\ Len(after) = Len(before)
                     /\ \A i \in 1..Len(before) :
                            after[i] # before[i] =>
                                \E k \in Located(last'.name) :
                                    i = parser.parameters[k].line_number
                                            + 1]_vars

\* C28: after a successful toggle_section the rescan reports every
\* section of that name with the start_line and end_line it had before
\* the call.
C28_BoundariesKept ==
    [][(Called("toggle_section") /\ last'.ret) =>
          \A k \in Named(last'.section) :
              \E j \in 1..Len(parser'.sections) :
                  /\ parser'.sections[j].name = last'.section
                  /\ parser'.sections[j].start_line
                         = parser.sections[k].start_line
                  /\ parser'.sections[j].end_line
                         = parser.sections[k].end_line]_vars

\* C29: every call that takes one snapshot (create_version called directly,
\* the auto backup of a mutation, the backup before a restore) adds exactly
\* one record to the list of versions and leaves the content of every
\* version stored before unchanged, also when a snapshot with the same
\* label was taken in the same second.
C29_SnapshotAddsOne ==
    [][(nops' = nops + 1 /\ last'.snapshots = 1) =>
          /\ Len(ListVersions(versions')) = Len(ListVersions(versions)) + 1
          /\ \A n \in DOMAIN versions :
                 /\ n \in DOMAIN versions'
                 /\ versions'[n] = versions[n]]_vars

\* C30: batch_update_parameters leaves the script content and reports the
\* per-name results that one update_parameter call per entry, in the same
\* order and each with its own rescan, would.
C30_BatchEqualsSequence ==
    [][Called("batch_update_parameters") =>
          \A st \in {PerItemLoop([script |-> script, versions |-> versions,
                                  parser |-> parser, results |-> <<>>,
                                  writes |-> 0, snapshots |-> 0],
                                 last'.updates, 1, last'.backup)} :
              /\ script' = st.script
              /\ last'.results = st.results]_vars

====
